---- MODULE Spec2Model ----
(***************************************************************************)
(* Model of the atomic-swap pallet (frame/atomic-swap/src/lib.rs): the     *)
(* PendingSwaps double map, the three dispatchables create_swap,           *)
(* claim_swap and cancel_swap, the BalanceSwapAction over a reservable     *)
(* currency, the deposited events and the block number.                    *)
(***************************************************************************)
EXTENDS Integers, Sequences, FiniteSets, TLC

\* ------------------------------------------------------------------ bounds
\* Highest block number reached.
MaxBlock == 1
\* Number of swaps created in a behaviour of Spec (SpecMany allows one more).
MaxCreates == 1

\* ------------------------------------------------------- configuration
\* T::ProofLimit, the longest proof claim_swap accepts.
ProofLimit == 1
\* The receiving capacity of an account: a transfer that would lift the
\* beneficiary's free balance above it is rejected by the currency.
ReceiveCapacity == 3
\* Free balance every account holds at genesis.
InitialBalance == 2

AccountId == {1, 2}
TotalIssuance == InitialBalance * Cardinality(AccountId)
Bytes == {0}
\* T::SwapAction = BalanceSwapAction: the action is its `value`.
SwapActions == {1, 2}
Durations == {0, 1}

Proofs == UNION {[1 .. n -> Bytes] : n \in 0 .. ProofLimit + 1}

\* sp_io::hashing::blake2_256: a fixed collision-resistant hash, modelled as
\* an injective numbering of the byte strings.
RECURSIVE blake2_256(_)
blake2_256(proof) ==
  IF proof = <<>> THEN 0
  ELSE blake2_256(SubSeq(proof, 1, Len(proof) - 1)) * (Cardinality(Bytes) + 1)
         + proof[Len(proof)] + 1

\* The hashes swaps are created and cancelled under: those of the non-empty
\* proofs, one within ProofLimit and one beyond it.
HashedProof == {blake2_256(p) : p \in Proofs \ {<<>>}}

VARIABLES PendingSwaps, free, reserved, events, block, last

vars == <<PendingSwaps, free, reserved, events, block, last>>

\* ------------------------------------------------------------ currency
\* ReservableCurrency::reserve: move `value` from free to reserved, or fail.
Currency_reserve(who, value) ==
  IF free[who] >= value
  THEN [ok |-> TRUE,
        free |-> [free EXCEPT ![who] = @ - value],
        reserved |-> [reserved EXCEPT ![who] = @ + value]]
  ELSE [ok |-> FALSE, free |-> free, reserved |-> reserved]

\* ReservableCurrency::repatriate_reserved(.., BalanceStatus::Free): move the
\* reserved `value` of `slashed` to the free balance of `beneficiary`; fails
\* without effect when the beneficiary cannot receive it.
Currency_repatriate_reserved(slashed, beneficiary, value) ==
  LET actual == IF reserved[slashed] < value THEN reserved[slashed] ELSE value
      r1 == [reserved EXCEPT ![slashed] = @ - actual]
      f1 == [free EXCEPT ![beneficiary] = @ + actual]
  IN IF free[beneficiary] + actual > ReceiveCapacity
     THEN [ok |-> FALSE, free |-> free, reserved |-> reserved]
     ELSE [ok |-> TRUE, free |-> f1, reserved |-> r1]

\* ReservableCurrency::unreserve: move up to `value` from reserved to free.
Currency_unreserve(who, value) ==
  LET actual == IF reserved[who] < value THEN reserved[who] ELSE value
  IN [ok |-> TRUE,
      free |-> [free EXCEPT ![who] = @ + actual],
      reserved |-> [reserved EXCEPT ![who] = @ - actual]]

\* ---------------------------------------------------- BalanceSwapAction
reserve(action, source) == Currency_reserve(source, action)

claim_mut(action, source, target) == Currency_repatriate_reserved(source, source, action)

claim_deposit_mut(action, source, target) ==
  [ok |-> TRUE, free |-> [free EXCEPT ![target] = @ + action], reserved |-> reserved]

claim(action, source, target) == Currency_repatriate_reserved(source, target, action)

cancel_mut(action, source) == [ok |-> TRUE, free |-> free, reserved |-> reserved]

cancel(action, source) == Currency_unreserve(source, action)

\* ------------------------------------------------------------- storage
contains_key_mut(target, hashed_proof) == FALSE

contains_key(target, hashed_proof) == <<target, hashed_proof>> \in DOMAIN PendingSwaps

\* Option<PendingSwap>: the empty sequence is None, <<swap>> is Some(swap).
get_mut(target, hashed_proof) ==
  LET ks == {k \in DOMAIN PendingSwaps : k[2] = hashed_proof}
  IN IF ks = {} THEN <<>> ELSE <<PendingSwaps[CHOOSE k \in ks : TRUE]>>

get(target, hashed_proof) ==
  IF <<target, hashed_proof>> \in DOMAIN PendingSwaps
  THEN <<PendingSwaps[<<target, hashed_proof>>]>>
  ELSE <<>>

insert(target, hashed_proof, swap) ==
  [k \in DOMAIN PendingSwaps \cup {<<target, hashed_proof>>} |->
     IF k = <<target, hashed_proof>> THEN swap ELSE PendingSwaps[k]]

remove_mut(target, hashed_proof) == PendingSwaps

remove_prefix_mut(target, hashed_proof) ==
  [k \in {k2 \in DOMAIN PendingSwaps : k2[1] # target} |-> PendingSwaps[k]]

remove(target, hashed_proof) ==
  [k \in DOMAIN PendingSwaps \ {<<target, hashed_proof>>} |-> PendingSwaps[k]]

\* -------------------------------------------------------------- events
NewSwap(target, hashed_proof, swap) ==
  [type |-> "NewSwap", target |-> target, hashed_proof |-> hashed_proof, swap |-> swap]

SwapClaimed_mut(target, hashed_proof, succeeded) ==
  [type |-> "SwapClaimed", target |-> target, hashed_proof |-> hashed_proof,
   success |-> TRUE]

SwapClaimed(target, hashed_proof, succeeded) ==
  [type |-> "SwapClaimed", target |-> target, hashed_proof |-> hashed_proof,
   success |-> succeeded]

SwapCancelled(target, hashed_proof) ==
  [type |-> "SwapCancelled", target |-> target, hashed_proof |-> hashed_proof]

deposit_event_mut(e) == IF e.type = "SwapCancelled" THEN events ELSE Append(events, e)

deposit_event(e) == Append(events, e)

\* Number of NewSwap events deposited so far (bounds the model).
NewSwapCount == Cardinality({i \in 1 .. Len(events) : events[i].type = "NewSwap"})

\* ------------------------------------------------------ handler checks
end_block_mut(duration) == duration

\* frame_system::Module::<T>::block_number() + duration
end_block(duration) == block + duration

proof_within_limit_mut(proof) == Len(proof) < ProofLimit

proof_within_limit(proof) == Len(proof) <= ProofLimit

action_matches_mut(swap, action) == TRUE

action_matches(swap, action) == swap.action = action

source_matches_mut(swap, source) == TRUE

source_matches(swap, source) == swap.source = source

duration_passed_mut(swap) == block > swap.end_block

duration_passed_early_mut(swap) == block < swap.end_block

duration_passed(swap) == block >= swap.end_block

\* The call just dispatched: its arguments and its DispatchResult.
Call(op, origin, target, hashed_proof, result) ==
  [op |-> op, origin |-> origin, target |-> target, hashed_proof |-> hashed_proof,
   result |-> result]

Fail_mut(call) ==
  /\ last' = call
  /\ PendingSwaps' = remove(call.target, call.hashed_proof)
  /\ UNCHANGED <<free, reserved, events, block>>

Fail(call) ==
  /\ last' = call
  /\ UNCHANGED <<PendingSwaps, free, reserved, events, block>>

\* ------------------------------------------------------- dispatchables
create_swap(origin, target, hashed_proof, action, duration) ==
  LET source == origin
      call(result) == Call("create_swap", origin, target, hashed_proof, result)
      r == reserve(action, source)
      swap == [source |-> source, action |-> action, end_block |-> end_block(duration)]
  IN IF contains_key(target, hashed_proof) THEN Fail(call("AlreadyExist"))
     ELSE IF ~r.ok THEN Fail(call("InsufficientBalance"))
     ELSE /\ free' = r.free
          /\ reserved' = r.reserved
          /\ PendingSwaps' = insert(target, hashed_proof, swap)
          /\ events' = deposit_event(NewSwap(target, hashed_proof, swap))
          /\ last' = call("Ok")
          /\ UNCHANGED block

claim_swap_mut(origin, proof, action) ==
  LET target == origin
      hashed_proof == blake2_256(proof)
      call(result) == Call("claim_swap", origin, target, hashed_proof, result)
      found == get(target, hashed_proof)
  IN IF ~proof_within_limit(proof) THEN Fail(call("ProofTooLarge"))
     ELSE IF found = <<>> THEN Fail(call("InvalidProof"))
     ELSE LET swap == found[1] IN
          IF ~action_matches(swap, action) THEN Fail(call("ClaimActionMismatch"))
          ELSE IF duration_passed(swap) THEN Fail(call("InvalidProof"))
          ELSE LET c == claim(swap.action, swap.source, target)
                   succeeded == c.ok
               IN /\ free' = c.free
                  /\ reserved' = c.reserved
                  /\ PendingSwaps' = remove(target, hashed_proof)
                  /\ events' = deposit_event(SwapClaimed(target, hashed_proof, succeeded))
                  /\ last' = call("Ok")
                  /\ UNCHANGED block

claim_swap(origin, proof, action) ==
  LET target == origin
      hashed_proof == blake2_256(proof)
      \* `last` names the key the call addresses even when it is rejected
      \* before the hash is computed.
      call(result) == Call("claim_swap", origin, target, hashed_proof, result)
      found == get(target, hashed_proof)
  IN IF ~proof_within_limit(proof) THEN Fail(call("ProofTooLarge"))
     ELSE IF found = <<>> THEN Fail(call("InvalidProof"))
     ELSE LET swap == found[1] IN
          IF ~action_matches(swap, action) THEN Fail(call("ClaimActionMismatch"))
          ELSE LET c == claim(swap.action, swap.source, target)
                   succeeded == c.ok
               IN /\ free' = c.free
                  /\ reserved' = c.reserved
                  /\ PendingSwaps' = remove(target, hashed_proof)
                  /\ events' = deposit_event(SwapClaimed(target, hashed_proof, succeeded))
                  /\ last' = call("Ok")
                  /\ UNCHANGED block

cancel_swap_mut(origin, target, hashed_proof) ==
  LET source == origin
      call(result) == Call("cancel_swap", origin, target, hashed_proof, result)
      found == get(target, hashed_proof)
  IN IF found = <<>> THEN Fail(call("NotExist"))
     ELSE LET swap == found[1] IN
          IF ~duration_passed(swap) THEN Fail(call("DurationNotPassed"))
          ELSE IF ~source_matches(swap, source) THEN Fail(call("SourceMismatch"))
          ELSE LET c == cancel(swap.action, swap.source)
               IN /\ free' = c.free
                  /\ reserved' = c.reserved
                  /\ PendingSwaps' = remove(target, hashed_proof)
                  /\ events' = deposit_event(SwapCancelled(target, hashed_proof))
                  /\ last' = call("Ok")
                  /\ UNCHANGED block

cancel_swap(origin, target, hashed_proof) ==
  LET source == origin
      call(result) == Call("cancel_swap", origin, target, hashed_proof, result)
      found == get(target, hashed_proof)
  IN IF found = <<>> THEN Fail(call("NotExist"))
     ELSE LET swap == found[1] IN
          IF ~source_matches(swap, source) THEN Fail(call("SourceMismatch"))
          ELSE IF ~duration_passed(swap) THEN Fail(call("DurationNotPassed"))
          ELSE LET c == cancel(swap.action, swap.source)
               IN /\ free' = c.free
                  /\ reserved' = c.reserved
                  /\ PendingSwaps' = remove(target, hashed_proof)
                  /\ events' = deposit_event(SwapCancelled(target, hashed_proof))
                  /\ last' = call("Ok")
                  /\ UNCHANGED block

NoCall == Call("none", 1, 1, 0, "Ok")

\* The block number only grows between dispatches; `last` is the call last
\* dispatched in the current block.
AdvanceBlock ==
  /\ block < MaxBlock
  /\ block' = block + 1
  /\ last' = NoCall
  /\ UNCHANGED <<PendingSwaps, free, reserved, events>>

\* Any create_swap call; at most n of them succeed in a behaviour.
CreateSwap(n) ==
  \E origin \in AccountId, target \in AccountId, hashed_proof \in HashedProof,
     action \in SwapActions, duration \in Durations :
       /\ create_swap(origin, target, hashed_proof, action, duration)
       /\ last'.result = "Ok" => NewSwapCount < n

ClaimSwap ==
  \E origin \in AccountId, proof \in Proofs, action \in SwapActions :
       claim_swap(origin, proof, action)

CancelSwap ==
  \E origin \in AccountId, target \in AccountId, hashed_proof \in HashedProof :
       cancel_swap(origin, target, hashed_proof)

Init ==
  /\ PendingSwaps = <<>>
  /\ free = [a \in AccountId |-> InitialBalance]
  /\ reserved = [a \in AccountId |-> 0]
  /\ events = <<>>
  /\ block = 0
  /\ last = NoCall

Next == CreateSwap(MaxCreates) \/ ClaimSwap \/ CancelSwap \/ AdvanceBlock

Spec == Init /\ [][Next]_vars

NextMany == CreateSwap(MaxCreates + 1) \/ ClaimSwap \/ CancelSwap \/ AdvanceBlock

\* As Spec, with one more swap created: swaps in flight together, and a key
\* created again after its record was removed.
SpecMany == Init /\ [][NextMany]_vars

\* ------------------------------------------------------ derived values
Key(call) == <<call.target, call.hashed_proof>>

Pending(k) == k \in DOMAIN PendingSwaps

\* The events deposited for the key k, in order.
KeyEvents(k) ==
  SelectSeq(events, LAMBDA e : e.target = k[1] /\ e.hashed_proof = k[2])

Resolving == {"SwapClaimed", "SwapCancelled"}

RECURSIVE SumFn(_, _)
SumFn(f, S) ==
  IF S = {} THEN 0
  ELSE LET x == CHOOSE y \in S : TRUE IN f[x] + SumFn(f, S \ {x})

\* Sum of the amounts of the pending swaps whose source is a.
PendingSum(a) ==
  SumFn([k \in DOMAIN PendingSwaps |->
           IF PendingSwaps[k].source = a THEN PendingSwaps[k].action ELSE 0],
        DOMAIN PendingSwaps)

\* The NewSwap event that created the record event i resolved.
CreatedBy(i) ==
  LET js == {j \in 1 .. i - 1 : /\ events[j].type = "NewSwap"
                                /\ events[j].target = events[i].target
                                /\ events[j].hashed_proof = events[i].hashed_proof}
  IN events[CHOOSE j \in js : \A j2 \in js : j2 <= j]

\* Sum of the amounts of a's swaps removed by a claim whose transfer failed.
Stranded(a) ==
  LET F == {i \in 1 .. Len(events) :
              /\ events[i].type = "SwapClaimed"
              /\ ~events[i].success
              /\ CreatedBy(i).swap.source = a}
  IN SumFn([i \in F |-> CreatedBy(i).swap.action], F)

\* The source of the record pending at k cancels it.
CancelBySource(k) ==
  /\ Pending(k)
  /\ cancel_swap(PendingSwaps[k].source, k[1], k[2])
  /\ last'.result = "Ok"

\* Blocks keep being produced, and a source whose cancel_swap stays possible
\* issues it.
Fairness ==
  /\ WF_vars(AdvanceBlock)
  /\ \A k \in AccountId \X HashedProof : WF_vars(CancelBySource(k))

SpecFair == Init /\ [][Next]_vars /\ Fairness

Unchanged == UNCHANGED <<PendingSwaps, free, reserved, events, block>>

\* ---------------------------------------------------------------- C1
\* C1: exactly-once resolution. For every key the deposited events alternate
\* NewSwap, resolving event, NewSwap, ...: each successful create_swap is
\* followed by at most one successful claim_swap or cancel_swap of that record,
\* never both; and once the record is removed a claim_swap by the target with a
\* proof of that hash fails with InvalidProof and a cancel_swap on the key fails
\* with NotExist, changing nothing.
C1_Alternation ==
  \A k \in AccountId \X HashedProof :
    LET ke == KeyEvents(k) IN
      /\ \A i \in 1 .. Len(ke) :
           IF i % 2 = 1 THEN ke[i].type = "NewSwap" ELSE ke[i].type \in Resolving
      /\ Pending(k) <=> (Len(ke) % 2 = 1)

C1_AfterRemoval ==
  /\ (last'.op = "claim_swap" /\ ~Pending(Key(last'))) =>
       \A p \in Proofs, a \in SwapActions :
         (/\ Len(p) <= ProofLimit
          /\ claim_swap(last'.origin, p, a))
         => (last'.result = "InvalidProof" /\ Unchanged)
  /\ (/\ last'.op = "cancel_swap"
      /\ ~Pending(Key(last'))
      /\ cancel_swap(last'.origin, last'.target, last'.hashed_proof))
     => (last'.result = "NotExist" /\ Unchanged)

C1_ExactlyOnce == [](C1_Alternation) /\ [][C1_AfterRemoval]_vars

\* A swap was claimed and a second claim of the same key by the target has
\* just failed with InvalidProof.
C1_Witness ==
  /\ last.op = "claim_swap"
  /\ last.result = "InvalidProof"
  /\ Len(KeyEvents(Key(last))) = 2
  /\ KeyEvents(Key(last))[2].type = "SwapClaimed"

\* ---------------------------------------------------------------- C2
\* C2 as stated: for every account the reserved balance equals the sum of the
\* amounts of the pending swaps whose source it is.
C2_Original == \A a \in AccountId : reserved[a] = PendingSum(a)

\* C2 amended: for every account the reserved balance equals the sum of the
\* amounts of its pending swaps plus the amounts of its swaps that a claim
\* removed while the transfer failed (SwapClaimed with success = false): those
\* stay reserved.
C2_ReservedAccounted ==
  \A a \in AccountId : reserved[a] = PendingSum(a) + Stranded(a)

\* A claim whose transfer failed has removed the only record: its amount is
\* still reserved from the source.
C2_Witness ==
  /\ last.op = "claim_swap"
  /\ last.result = "Ok"
  /\ PendingSwaps = <<>>
  /\ \E a \in AccountId : Stranded(a) > 0 /\ reserved[a] = Stranded(a)

\* ---------------------------------------------------------------- C3
\* C3: a create_swap at a key that holds no record, whose reservation succeeds,
\* returns Ok, stores at (target, hashed_proof) the record with source = caller,
\* the supplied action and end_block = current block + duration, and deposits
\* exactly one event, NewSwap carrying that record.
C3_Step ==
  \A a \in SwapActions, d \in Durations :
    LET o == last'.origin
        t == last'.target
        h == last'.hashed_proof
        rec == [source |-> o, action |-> a, end_block |-> block + d]
    IN (/\ last'.op = "create_swap"
        /\ ~Pending(<<t, h>>)
        /\ reserve(a, o).ok
        /\ create_swap(o, t, h, a, d))
       => /\ last'.result = "Ok"
          /\ <<t, h>> \in DOMAIN PendingSwaps'
          /\ PendingSwaps'[<<t, h>>] = rec
          /\ events' = Append(events, [type |-> "NewSwap", target |-> t,
                                       hashed_proof |-> h, swap |-> rec])

C3_CreateEffect == [][C3_Step]_vars

\* A swap was created at block 1 with duration 1.
C3_Witness ==
  /\ last.op = "create_swap"
  /\ last.result = "Ok"
  /\ block = 1
  /\ Pending(Key(last))
  /\ PendingSwaps[Key(last)].end_block = 2

\* ---------------------------------------------------------------- C4
\* C4: a create_swap at a key that holds a pending record fails with
\* AlreadyExist for every caller, action and duration, and changes neither the
\* record, nor any balance, nor the events.
C4_Step ==
  \A a \in SwapActions, d \in Durations :
    (/\ last'.op = "create_swap"
     /\ Pending(Key(last'))
     /\ create_swap(last'.origin, last'.target, last'.hashed_proof, a, d))
    => (last'.result = "AlreadyExist" /\ Unchanged)

C4_AlreadyExist == [][C4_Step]_vars

\* An account other than the record's source was refused with AlreadyExist.
C4_Witness ==
  /\ last.op = "create_swap"
  /\ last.result = "AlreadyExist"
  /\ Pending(Key(last))
  /\ PendingSwaps[Key(last)].source # last.origin

\* ---------------------------------------------------------------- C5
\* C5: a claim_swap by the target with a proof within ProofLimit whose hash is
\* a stored key and with the stored action returns Ok and removes the record
\* whether the transfer succeeds or not; the SwapClaimed event carries the
\* outcome of the transfer: true when the amount moved from the source's
\* reserved to the target's free balance, false when no balance moved.
C5_Step ==
  \A p \in Proofs, a \in SwapActions :
    LET t == last'.origin
        k == <<t, blake2_256(p)>>
    IN (/\ last'.op = "claim_swap"
        /\ Len(p) <= ProofLimit
        /\ Pending(k)
        /\ PendingSwaps[k].action = a
        /\ claim_swap(t, p, a))
       => /\ last'.result = "Ok"
          /\ k \notin DOMAIN PendingSwaps'
          /\ \A k2 \in DOMAIN PendingSwaps \ {k} :
               k2 \in DOMAIN PendingSwaps' /\ PendingSwaps'[k2] = PendingSwaps[k2]
          /\ \E b \in BOOLEAN :
               /\ events' = Append(events, [type |-> "SwapClaimed", target |-> t,
                                            hashed_proof |-> k[2], success |-> b])
               /\ IF b
                  THEN LET s == PendingSwaps[k].source
                           r1 == [reserved EXCEPT ![s] = @ - a]
                       IN reserved' = r1 /\ free' = [free EXCEPT ![t] = @ + a]
                  ELSE free' = free /\ reserved' = reserved

C5_ClaimResolves == [][C5_Step]_vars

\* A claim has just returned Ok and removed the record although its transfer
\* failed: the event says false.
C5_Witness ==
  /\ last.op = "claim_swap"
  /\ last.result = "Ok"
  /\ ~Pending(Key(last))
  /\ events[Len(events)].type = "SwapClaimed"
  /\ ~events[Len(events)].success

\* ---------------------------------------------------------------- C6
\* C6: only the target can claim. A claim_swap whose caller holds no record at
\* (caller, hash(proof)) changes no record, no balance and no event, and
\* fails: with InvalidProof when the proof is within ProofLimit (the lookup is
\* reached). So an account that is not the target of a pending swap, submitting
\* its proof and its action, neither claims nor removes it.
C6_Step ==
  \A p \in Proofs, a \in SwapActions :
    (/\ last'.op = "claim_swap"
     /\ ~Pending(<<last'.origin, blake2_256(p)>>)
     /\ claim_swap(last'.origin, p, a))
    => /\ Unchanged
       /\ last'.result # "Ok"
       /\ Len(p) <= ProofLimit => last'.result = "InvalidProof"

C6_OnlyTarget == [][C6_Step]_vars

\* An account that is not the target submitted the proof of a pending swap
\* and got InvalidProof; the swap is still pending.
C6_Witness ==
  /\ last.op = "claim_swap"
  /\ last.result = "InvalidProof"
  /\ \E t \in AccountId \ {last.origin} : Pending(<<t, last.hashed_proof>>)

\* ---------------------------------------------------------------- C7
\* C7: a claim_swap by the target with a proof within ProofLimit for a pending
\* record but with an action other than the stored one fails with
\* ClaimActionMismatch and changes no record, no balance and no event; in the
\* state it leaves, a claim with the stored action is still possible and
\* returns Ok.
C7_Step ==
  \A p \in Proofs, a \in SwapActions :
    LET k == <<last'.origin, blake2_256(p)>> IN
    (/\ last'.op = "claim_swap"
     /\ Len(p) <= ProofLimit
     /\ Pending(k)
     /\ PendingSwaps[k].action # a
     /\ claim_swap(last'.origin, p, a))
    => (last'.result = "ClaimActionMismatch" /\ Unchanged)

C7_StillClaimable ==
  (last.op = "claim_swap" /\ last.result = "ClaimActionMismatch")
  => \E p \in Proofs :
       /\ blake2_256(p) = last.hashed_proof
       /\ Pending(Key(last))
       /\ ENABLED (/\ claim_swap(last.origin, p, PendingSwaps[Key(last)].action)
                   /\ last'.result = "Ok")

C7_ActionMismatch == [][C7_Step]_vars /\ [](C7_StillClaimable)

\* A claim was just refused with ClaimActionMismatch and the record is pending.
C7_Witness ==
  /\ last.op = "claim_swap"
  /\ last.result = "ClaimActionMismatch"
  /\ Pending(Key(last))

\* ---------------------------------------------------------------- C8
\* C8: a claim_swap with a proof longer than ProofLimit fails with
\* ProofTooLarge and changes nothing, also when the caller holds a pending
\* record under the hash of that proof; a proof of length ProofLimit or less
\* is never refused with ProofTooLarge.
C8_Step ==
  \A p \in Proofs, a \in SwapActions :
    (/\ last'.op = "claim_swap"
     /\ claim_swap(last'.origin, p, a))
    => IF Len(p) > ProofLimit
       THEN last'.result = "ProofTooLarge" /\ Unchanged
       ELSE last'.result # "ProofTooLarge"

C8_ProofTooLarge == [][C8_Step]_vars

\* A claim was refused with ProofTooLarge while the caller holds a pending
\* record under the hash of the oversized proof.
C8_Witness ==
  /\ last.op = "claim_swap"
  /\ last.result = "ProofTooLarge"
  /\ Pending(Key(last))

\* ---------------------------------------------------------------- C9
\* C9: a cancel_swap of a pending record by its source fails with
\* DurationNotPassed, changing nothing, when the current block is below
\* end_block; at end_block or later it returns Ok, removes the record, returns
\* the amount from the source's reserved to its free balance and deposits
\* SwapCancelled.
C9_Step ==
  LET o == last'.origin
      k == Key(last')
  IN (/\ last'.op = "cancel_swap"
      /\ Pending(k)
      /\ PendingSwaps[k].source = o
      /\ cancel_swap(o, k[1], k[2]))
     => IF block < PendingSwaps[k].end_block
        THEN last'.result = "DurationNotPassed" /\ Unchanged
        ELSE /\ last'.result = "Ok"
             /\ PendingSwaps' = [k2 \in DOMAIN PendingSwaps \ {k} |-> PendingSwaps[k2]]
             /\ reserved' = [reserved EXCEPT ![o] = @ - PendingSwaps[k].action]
             /\ free' = [free EXCEPT ![o] = @ + PendingSwaps[k].action]
             /\ events' = Append(events, [type |-> "SwapCancelled", target |-> k[1],
                                          hashed_proof |-> k[2]])

C9_DeadlineGate == [][C9_Step]_vars

\* A cancel succeeded in the very block that is the record's end_block.
C9_Witness ==
  /\ last.op = "cancel_swap"
  /\ last.result = "Ok"
  /\ LET ke == KeyEvents(Key(last)) IN
       /\ Len(ke) = 2
       /\ ke[1].swap.end_block = block
       /\ ke[1].swap.end_block > 0
       /\ ke[2].type = "SwapCancelled"

\* --------------------------------------------------------------- C10
\* C10: a cancel_swap of a pending record by an account that is not its source
\* fails with SourceMismatch at every block, before, at or after end_block,
\* and changes no record, no balance and no event.
C10_Step ==
  LET o == last'.origin
      k == Key(last')
  IN (/\ last'.op = "cancel_swap"
      /\ Pending(k)
      /\ PendingSwaps[k].source # o
      /\ cancel_swap(o, k[1], k[2]))
     => (last'.result = "SourceMismatch" /\ Unchanged)

C10_SourceMismatch == [][C10_Step]_vars

\* The target of a swap was refused with SourceMismatch after end_block.
C10_Witness ==
  /\ last.op = "cancel_swap"
  /\ last.result = "SourceMismatch"
  /\ last.origin = last.target
  /\ Pending(Key(last))
  /\ block > PendingSwaps[Key(last)].end_block

\* --------------------------------------------------------------- C11
\* C11: all-or-nothing. Every create_swap, claim_swap or cancel_swap call that
\* returns an error (AlreadyExist or the reservation failure for create;
\* ProofTooLarge, InvalidProof or ClaimActionMismatch for claim; NotExist,
\* SourceMismatch or DurationNotPassed for cancel) leaves the store, every
\* account's free and reserved balance and the event list exactly as before.
C11_Errors ==
  [create_swap |-> {"AlreadyExist", "InsufficientBalance"},
   claim_swap |-> {"ProofTooLarge", "InvalidProof", "ClaimActionMismatch"},
   cancel_swap |-> {"NotExist", "SourceMismatch", "DurationNotPassed"}]

C11_Step ==
  /\ last'.op # "none" => last'.result \in C11_Errors[last'.op] \cup {"Ok"}
  /\ last'.result # "Ok" => Unchanged

C11_AllOrNothing == [][C11_Step]_vars

\* A create_swap was refused because the source could not reserve the amount,
\* while a record is pending and its amount is held in reserve.
C11_Witness ==
  /\ last.op = "create_swap"
  /\ last.result = "InsufficientBalance"
  /\ PendingSwaps # <<>>
  /\ reserved[last.origin] > 0
  /\ Len(events) = 1

\* --------------------------------------------------------------- C12
\* The balances after the first n deposited events, replayed from the genesis
\* balances by the ledger rules of the three operations.
RECURSIVE LedgerAt(_)
LedgerAt(n) ==
  IF n = 0
  THEN [free |-> [a \in AccountId |-> InitialBalance],
        reserved |-> [a \in AccountId |-> 0]]
  ELSE LET L == LedgerAt(n - 1)
           e == events[n]
           swap == IF e.type = "NewSwap" THEN e.swap ELSE CreatedBy(n).swap
           s == swap.source
           v == swap.action
       IN CASE e.type = "NewSwap" ->
                 [free |-> [L.free EXCEPT ![s] = @ - v],
                  reserved |-> [L.reserved EXCEPT ![s] = @ + v]]
            [] e.type = "SwapCancelled" ->
                 [free |-> [L.free EXCEPT ![s] = @ + v],
                  reserved |-> [L.reserved EXCEPT ![s] = @ - v]]
            [] e.type = "SwapClaimed" ->
                 IF e.success
                 THEN [free |-> [L.free EXCEPT ![e.target] = @ + v],
                       reserved |-> [L.reserved EXCEPT ![s] = @ - v]]
                 ELSE L

\* C12: round trips of a balance action of amount v. When a create_swap by S
\* for T is followed, with no other successful call in between, by a
\* claim_swap by T whose transfer succeeds, no record is left at the key and,
\* against the balances before the create, exactly v has moved from S to T's
\* free balance and every reserved balance is as before. When it is followed
\* instead by a cancel_swap by S, no record is left at the key and every free
\* and reserved balance is as before the create.
C12_RoundTrips ==
  LET n == Len(events) IN
    (/\ n >= 2
     /\ events[n - 1].type = "NewSwap"
     /\ events[n].type \in Resolving
     /\ events[n].target = events[n - 1].target
     /\ events[n].hashed_proof = events[n - 1].hashed_proof)
    => LET before == LedgerAt(n - 2)
           S == events[n - 1].swap.source
           T == events[n - 1].target
           v == events[n - 1].swap.action
           moved == [[before.free EXCEPT ![S] = @ - v] EXCEPT ![T] = @ + v]
       IN /\ ~Pending(<<T, events[n].hashed_proof>>)
          /\ events[n].type = "SwapCancelled"
               => free = before.free /\ reserved = before.reserved
          /\ (events[n].type = "SwapClaimed" /\ events[n].success)
               => free = moved /\ reserved = before.reserved

\* A swap created by S for another account T has just been claimed by T with a
\* successful transfer: T's free balance is above its genesis value.
C12_Witness ==
  /\ last.op = "claim_swap"
  /\ last.result = "Ok"
  /\ Len(events) = 2
  /\ events[1].type = "NewSwap"
  /\ events[1].swap.source # events[1].target
  /\ events[2].type = "SwapClaimed"
  /\ events[2].success
  /\ free[events[1].target] = InitialBalance + events[1].swap.action

\* --------------------------------------------------------------- C13
\* C13: per-key state machine Absent -> Pending -> Resolved with Resolved
\* terminal. Once a key's record has been removed by a claim_swap or a
\* cancel_swap (the key has deposited events and holds no record), no later
\* step makes that key hold a record again.
C13_ResolvedStep ==
  \A k \in AccountId \X HashedProof :
    (KeyEvents(k) # <<>> /\ ~Pending(k)) => k \notin DOMAIN PendingSwaps'

C13_ResolvedTerminal == [][C13_ResolvedStep]_vars

\* --------------------------------------------------------------- C14
\* C14: swaps whose keys collide in part (same target with another hash, same
\* hash with another target) are independent. Every call leaves the record at
\* every key other than its own as it was, present or absent; and whatever
\* records are pending at other keys, a create_swap at a key that holds no
\* record is never refused with AlreadyExist, a claim_swap by the target with a
\* proof within ProofLimit and the stored action returns Ok, and a cancel_swap
\* by the source at or after end_block returns Ok.
C14_Frame ==
  \A k \in AccountId \X HashedProof :
    (last'.op = "none" \/ k # Key(last'))
      => /\ Pending(k) <=> k \in DOMAIN PendingSwaps'
         /\ Pending(k) => PendingSwaps'[k] = PendingSwaps[k]

C14_Step ==
  LET k == Key(last') IN
    /\ C14_Frame
    /\ (last'.op = "create_swap" /\ ~Pending(k)) => last'.result # "AlreadyExist"
    /\ (last'.op = "claim_swap" /\ Pending(k))
         => last'.result \in {"Ok", "ProofTooLarge", "ClaimActionMismatch"}
    /\ \A p \in Proofs :
         (/\ last'.op = "claim_swap"
          /\ Len(p) <= ProofLimit
          /\ Pending(k)
          /\ k[2] = blake2_256(p)
          /\ claim_swap(k[1], p, PendingSwaps[k].action))
         => last'.result = "Ok" /\ k \notin DOMAIN PendingSwaps'
    /\ (/\ last'.op = "cancel_swap"
        /\ Pending(k)
        /\ last'.origin = PendingSwaps[k].source
        /\ block >= PendingSwaps[k].end_block)
         => last'.result = "Ok" /\ k \notin DOMAIN PendingSwaps'

C14_Independent == [][C14_Step]_vars

\* A claim has just removed one record of a target while another record of
\* the same target, under another hash, is still pending.
C14_Witness ==
  /\ last.op = "claim_swap"
  /\ last.result = "Ok"
  /\ ~Pending(Key(last))
  /\ \E k \in DOMAIN PendingSwaps :
       k[1] = last.target /\ k[2] # last.hashed_proof

\* --------------------------------------------------------------- C15
\* C15: a record is immutable while it is pending. From the successful
\* create_swap that inserted it until the claim_swap or cancel_swap that
\* removes it, the source, action and end_block stored at a key never change:
\* no step rewrites a record that stays pending, and a pending record is always
\* the one carried by the latest NewSwap event of its key, whatever calls,
\* failing create_swap calls on the same key included, were interleaved.
C15_Step ==
  \A k \in DOMAIN PendingSwaps :
    k \in DOMAIN PendingSwaps' => PendingSwaps'[k] = PendingSwaps[k]

C15_AsCreated ==
  \A k \in DOMAIN PendingSwaps :
    LET ke == KeyEvents(k) IN
      /\ ke # <<>>
      /\ ke[Len(ke)].type = "NewSwap"
      /\ ke[Len(ke)].swap = PendingSwaps[k]

C15_Immutable == [](C15_AsCreated) /\ [][C15_Step]_vars

\* A record created in block 0 is still as created after a later block's
\* create_swap on its key, with another end_block, was refused.
C15_Witness ==
  /\ last.op = "create_swap"
  /\ last.result = "AlreadyExist"
  /\ block > 0
  /\ Len(events) = 1
  /\ events[1].swap.end_block = 0
  /\ PendingSwaps[Key(last)] = events[1].swap

\* --------------------------------------------------------------- C16
\* C16: order of the checks. create_swap reports AlreadyExist before it
\* attempts the reservation; claim_swap reports ProofTooLarge, then
\* InvalidProof, then ClaimActionMismatch; cancel_swap reports NotExist, then
\* SourceMismatch, then DurationNotPassed. A call that fails several checks
\* returns the error of the first one in that order, and Ok only when it
\* passes them all.
C16_Step ==
  LET o == last'.origin
      k == Key(last')
  IN /\ (last'.op = "create_swap" /\ Pending(k)) => last'.result = "AlreadyExist"
     /\ (last'.op = "create_swap" /\ ~Pending(k))
          => \A a \in SwapActions, d \in Durations :
               create_swap(o, k[1], k[2], a, d)
               => last'.result = IF ~reserve(a, o).ok THEN "InsufficientBalance"
                                 ELSE "Ok"
     /\ last'.op = "claim_swap"
          => \A p \in Proofs :
               k[2] = blake2_256(p)
               => IF Len(p) > ProofLimit THEN last'.result = "ProofTooLarge"
                  ELSE IF ~Pending(k) THEN last'.result = "InvalidProof"
                  ELSE \A a \in SwapActions :
                         claim_swap(o, p, a)
                         => last'.result = IF PendingSwaps[k].action # a
                                           THEN "ClaimActionMismatch"
                                           ELSE "Ok"
     /\ last'.op = "cancel_swap"
          => last'.result = IF ~Pending(k) THEN "NotExist"
                            ELSE IF PendingSwaps[k].source # o THEN "SourceMismatch"
                            ELSE IF block < PendingSwaps[k].end_block
                                 THEN "DurationNotPassed"
                            ELSE "Ok"

C16_CheckOrder == [][C16_Step]_vars

\* A cancel_swap by an account that is not the source, dispatched before
\* end_block, was refused with SourceMismatch rather than DurationNotPassed.
C16_Witness ==
  /\ last.op = "cancel_swap"
  /\ last.result = "SourceMismatch"
  /\ Pending(Key(last))
  /\ PendingSwaps[Key(last)].source # last.origin
  /\ block < PendingSwaps[Key(last)].end_block

\* --------------------------------------------------------------- C17
\* C17: liveness of cancellation. The block number never decreases; once it
\* has reached the end_block of a pending record, the cancel_swap by the
\* record's source is enabled and stays so until the record is removed; and
\* when blocks keep being produced and the source does issue that cancel
\* (SpecFair), every pending record whose end_block the block number can reach
\* (end_block <= MaxBlock) is eventually removed.
C17_Monotone == block' >= block

C17_CancelEnabled ==
  \A k \in DOMAIN PendingSwaps :
    block >= PendingSwaps[k].end_block => ENABLED CancelBySource(k)

C17_Removed ==
  \A k \in AccountId \X HashedProof :
    (Pending(k) /\ PendingSwaps[k].end_block <= MaxBlock) ~> ~Pending(k)

C17_EventuallyRemoved ==
  /\ [][C17_Monotone]_vars
  /\ [](C17_CancelEnabled)
  /\ C17_Removed

\* A record left unclaimed past its end_block has been cancelled by its source
\* in a later block.
C17_Witness ==
  /\ last.op = "cancel_swap"
  /\ last.result = "Ok"
  /\ Len(events) = 2
  /\ events[1].type = "NewSwap"
  /\ events[1].swap.end_block < block
  /\ events[2].type = "SwapCancelled"
  /\ PendingSwaps = <<>>

\* --------------------------------------------------------------- C18
\* C18: claim_swap has no deadline check. At every block, end_block and later
\* included, the claim_swap by the target of a pending record (proof within
\* ProofLimit, stored action) is enabled and returns Ok; from end_block on the
\* cancel_swap by the source is enabled and returns Ok as well. Whichever of
\* the two is dispatched first removes the record, and the
\* other one then fails: the cancel with NotExist after a claim, the claim with
\* InvalidProof after a cancel.
C18_BothEnabled ==
  \A k \in DOMAIN PendingSwaps :
    /\ \A p \in Proofs :
         (Len(p) <= ProofLimit /\ blake2_256(p) = k[2])
           => ENABLED (/\ claim_swap(k[1], p, PendingSwaps[k].action)
                       /\ last'.result = "Ok"
                       /\ k \notin DOMAIN PendingSwaps')
    /\ block >= PendingSwaps[k].end_block
         => ENABLED (/\ cancel_swap(PendingSwaps[k].source, k[1], k[2])
                     /\ last'.result = "Ok"
                     /\ k \notin DOMAIN PendingSwaps')

C18_LoserFails ==
  LET n == Len(events) IN
    (n >= 1 /\ events[n].type \in Resolving)
      => LET k == <<events[n].target, events[n].hashed_proof>>
             swap == CreatedBy(n).swap
         IN /\ ~Pending(k)
            /\ ENABLED (/\ cancel_swap(swap.source, k[1], k[2])
                        /\ last'.result = "NotExist")
            /\ ~ENABLED (/\ cancel_swap(swap.source, k[1], k[2])
                         /\ last'.result = "Ok")
            /\ \A p \in Proofs :
                 (Len(p) <= ProofLimit /\ blake2_256(p) = k[2])
                   => /\ ENABLED (/\ claim_swap(k[1], p, swap.action)
                                  /\ last'.result = "InvalidProof")
                      /\ ~ENABLED (/\ claim_swap(k[1], p, swap.action)
                                   /\ last'.result = "Ok")

C18_ClaimAfterDeadline == C18_BothEnabled /\ C18_LoserFails

\* A claim_swap has returned Ok in a block later than the record's end_block.
C18_Witness ==
  /\ last.op = "claim_swap"
  /\ last.result = "Ok"
  /\ Len(events) = 2
  /\ events[1].type = "NewSwap"
  /\ events[1].swap.end_block < block
  /\ events[2].type = "SwapClaimed"

\* --------------------------------------------------------------- C19
\* C19: balance conservation. Every step leaves the sum over all accounts of
\* free plus reserved balance unchanged. A successful create_swap only moves
\* the amount from the source's free to its reserved balance; a successful
\* claim_swap moves the amount from the source's reserved to the target's free
\* balance or moves nothing; a successful cancel_swap only moves the amount
\* from the source's reserved to its free balance; a failing call moves
\* nothing.
C19_Total(f, r) ==
  SumFn([a \in AccountId |-> f[a] + r[a]], AccountId)

C19_Step ==
  LET n == Len(events')
      e == events'[n]
      swap == IF last'.op = "create_swap" THEN e.swap ELSE PendingSwaps[Key(last')]
      s == swap.source
      v == swap.action
  IN /\ C19_Total(free', reserved') = C19_Total(free, reserved)
     /\ (last'.op = "none" \/ last'.result # "Ok")
          => free' = free /\ reserved' = reserved
     /\ (last'.op = "create_swap" /\ last'.result = "Ok")
          => /\ free' = [free EXCEPT ![s] = @ - v]
             /\ reserved' = [reserved EXCEPT ![s] = @ + v]
     /\ (last'.op = "claim_swap" /\ last'.result = "Ok")
          => \/ free' = free /\ reserved' = reserved
             \/ /\ free' = [free EXCEPT ![last'.target] = @ + v]
                /\ reserved' = [reserved EXCEPT ![s] = @ - v]
     /\ (last'.op = "cancel_swap" /\ last'.result = "Ok")
          => /\ free' = [free EXCEPT ![s] = @ + v]
             /\ reserved' = [reserved EXCEPT ![s] = @ - v]

C19_Conservation == [][C19_Step]_vars

\* A create_swap has moved the whole free balance of its source into reserve:
\* the source holds nothing free and the total is the issuance.
C19_Witness ==
  /\ last.op = "create_swap"
  /\ last.result = "Ok"
  /\ free[last.origin] = 0
  /\ reserved[last.origin] = InitialBalance
  /\ C19_Total(free, reserved) = TotalIssuance

\* --------------------------------------------------------------- C20
\* C20: the event log mirrors the store. Every call that returns Ok deposits
\* exactly one event, of the type of its operation and for its key (NewSwap
\* for create_swap, SwapClaimed for claim_swap, SwapCancelled for cancel_swap),
\* and every failing call deposits none. So a key holds a pending record
\* exactly when the most recent event deposited for it is NewSwap, and the
\* number of its NewSwap events exceeds the number of its SwapClaimed and
\* SwapCancelled events by 1 when it is pending and by 0 otherwise.
C20_EventType ==
  [create_swap |-> "NewSwap", claim_swap |-> "SwapClaimed",
   cancel_swap |-> "SwapCancelled"]

C20_Count(k, types) ==
  Cardinality({i \in 1 .. Len(events) :
                 /\ events[i].type \in types
                 /\ events[i].target = k[1]
                 /\ events[i].hashed_proof = k[2]})

C20_Mirror ==
  \A k \in AccountId \X HashedProof :
    LET ke == KeyEvents(k) IN
      /\ Pending(k) <=> (ke # <<>> /\ ke[Len(ke)].type = "NewSwap")
      /\ C20_Count(k, {"NewSwap"}) - C20_Count(k, Resolving)
           = IF Pending(k) THEN 1 ELSE 0

C20_Step ==
  IF last'.op # "none" /\ last'.result = "Ok"
  THEN /\ Len(events') = Len(events) + 1
       /\ SubSeq(events', 1, Len(events)) = events
       /\ events'[Len(events')].type = C20_EventType[last'.op]
       /\ events'[Len(events')].target = last'.target
       /\ events'[Len(events')].hashed_proof = last'.hashed_proof
  ELSE events' = events

C20_LogMirrorsStore == [](C20_Mirror) /\ [][C20_Step]_vars

\* A key whose record was created, cancelled and created again: two NewSwap
\* events and one SwapCancelled, the latest event NewSwap, and a record pending.
C20_Witness ==
  /\ last.op = "create_swap"
  /\ last.result = "Ok"
  /\ Pending(Key(last))
  /\ C20_Count(Key(last), {"NewSwap"}) = 2
  /\ C20_Count(Key(last), Resolving) = 1
  /\ KeyEvents(Key(last))[2].type = "SwapCancelled"
  /\ KeyEvents(Key(last))[3].type = "NewSwap"

TypeOK ==
  /\ DOMAIN PendingSwaps \subseteq AccountId \X HashedProof
  /\ \A k \in DOMAIN PendingSwaps :
       /\ PendingSwaps[k].source \in AccountId
       /\ PendingSwaps[k].action \in SwapActions
       /\ PendingSwaps[k].end_block \in 0 .. MaxBlock + 1
  /\ free \in [AccountId -> 0 .. TotalIssuance]
  /\ reserved \in [AccountId -> 0 .. TotalIssuance]
  /\ block \in 0 .. MaxBlock
====
